---------------------------- MODULE Spec2Model ----------------------------
(***************************************************************************)
(* A model of the cartoons dataset pipeline:                               *)
(*   export_trakt_lists.py  (List Fetcher)                                 *)
(*   apply_overrides.py     (Override Merger)                              *)
(*   enrich_tmdb.py         (Metadata Enricher)                            *)
(*   app.py                 (Similarity Recommender query)                 *)
(* Each stage is a separate program; each has its own specification        *)
(* (SpecFetch, SpecOverride, SpecEnrich, SpecRec) over its own variables.  *)
(*                                                                         *)
(* Encoding: every nullable column value is a string; None / NaN is NULL.  *)
(* A table row carries the columns the stages read or decide on; the       *)
(* remaining columns of the CSV files are copied through untouched by      *)
(* every stage and are left out.                                           *)
(***************************************************************************)
EXTENDS Integers, Sequences, FiniteSets, TLC

\* None (JSON null, Python None) and NaN (pandas missing value).
NULL == "NULL"

(***************************************************************************)
(* Bounds of the model.                                                    *)
(***************************************************************************)
\* Most raw items one list holds on the server.
MaxItems == 2

(***************************************************************************)
(* Generic helpers.                                                        *)
(***************************************************************************)
Range(s) == {s[i] : i \in DOMAIN s}

SeqsUpTo(S, n) == UNION {[1..k -> S] : k \in 0..n}

Min2(a, b) == IF a <= b THEN a ELSE b

Max2(a, b) == IF a >= b THEN a ELSE b

\* Lexicographic rank of the strings used as titles and kinds
\* ("A" < "B" < "C", "movie" < "show"); NULL sorts last (na_position="last").
StrRank(s) ==
    CASE s = "A" -> 1
      [] s = "B" -> 2
      [] s = "C" -> 3
      [] s = "movie" -> 4
      [] s = "show" -> 5
      [] OTHER -> 9

(***************************************************************************)
(* The checkpoint files the stages hand to each other.  A file is          *)
(* [exists, rows]; a stage's specification starts from the files its       *)
(* predecessors can have left.                                             *)
(***************************************************************************)
VARIABLES
    cartoons_trakt,       \* cartoons_trakt.csv        (Fetcher -> Merger)
    cartoons_trakt_fixed, \* cartoons_trakt_fixed.csv  (Merger -> Enricher)
    cartoons_enriched,    \* cartoons_enriched.csv     (Enricher -> Normalizer)
    tmdb_problems         \* tmdb_problems.csv         (Enricher's side report)

fileVars == <<cartoons_trakt, cartoons_trakt_fixed, cartoons_enriched, tmdb_problems>>

\* A file that does not exist.
Absent == [exists |-> FALSE, rows |-> <<>>]

File(rows) == [exists |-> TRUE, rows |-> rows]

(***************************************************************************)
(*                 LIST FETCHER  (export_trakt_lists.py)                   *)
(***************************************************************************)
VARIABLES
    f_pc,        \* "fetch" | "done" | "failed": position of main()
    list_no,     \* index into LIST_SLUGS of the list being fetched
    page,        \* fetch_list_items_by_id: page
    attempt,     \* fetch_list_items_by_id: attempt of the current page request
    last_err,    \* fetch_list_items_by_id: last_err (NULL is None)
    items,       \* fetch_list_items_by_id: items
    remote,      \* the raw items the server still holds for the current list
    all_dfs,     \* main: all_dfs
    f_error,     \* the exception that ended main(), NULL if none
    exhausted    \* history: some page request used all its attempts without a response

fetchVars == <<f_pc, list_no, page, attempt, last_err, items, remote, all_dfs,
               f_error, exhausted>>

\* LIST_SLUGS has two entries.
NumLists == 2

\* for attempt in range(1, 6)
FetchAttempts == 5

\* limit = 50 is the page size asked for; the server decides what a page holds.
\* The model's server hands out one or more of the remaining items per page.

\* The raw list items the server may hold: type, and the typed object's
\* title and ids.  A "season" item is one flatten_items filters out.
RawPool ==
    { [type |-> "show",   title |-> "A",  trakt_id |-> "1",  trakt_slug |-> "a",  tmdb_id |-> "5"],
      [type |-> "show",   title |-> "B",  trakt_id |-> "1",  trakt_slug |-> "b",  tmdb_id |-> "6"],
      [type |-> "movie",  title |-> "A",  trakt_id |-> NULL, trakt_slug |-> "a",  tmdb_id |-> NULL],
      [type |-> "show",   title |-> NULL, trakt_id |-> NULL, trakt_slug |-> "b",  tmdb_id |-> "7"],
      [type |-> "season", title |-> NULL, trakt_id |-> NULL, trakt_slug |-> NULL, tmdb_id |-> NULL] }

SourceSlug(n) == IF n = 1 THEN "L1" ELSE "L2"

\* flatten_items: one row per raw item, then only shows and movies are kept.
\* has_cols: pd.DataFrame([]) of no rows has no columns at all.
FlattenRow(it, source_slug) ==
    [source_list_slug |-> source_slug, type |-> it.type, title |-> it.title,
     trakt_id |-> it.trakt_id, trakt_slug |-> it.trakt_slug, tmdb_id |-> it.tmdb_id]

flatten_items(raw_items, source_slug) ==
    LET rows == [i \in DOMAIN raw_items |-> FlattenRow(raw_items[i], source_slug)]
    IN [has_cols |-> raw_items # <<>>,
        rows |-> SelectSeq(rows, LAMBDA r : r.type \in {"show", "movie"})]

RECURSIVE ConcatRows(_)
ConcatRows(dfs) ==
    IF dfs = <<>> THEN <<>> ELSE dfs[1].rows \o ConcatRows(Tail(dfs))

\* pd.concat(all_dfs, ignore_index=True)
concat(dfs) ==
    [has_cols |-> \E i \in DOMAIN dfs : dfs[i].has_cols, rows |-> ConcatRows(dfs)]

\* The key of row r under drop_duplicates(subset=[...]).
SubsetKey(r, subset) == [c \in DOMAIN subset |-> r[subset[c]]]

\* A plausible slip: keep="last" instead of keep="first".
drop_duplicates_keep_last(rows, subset) ==
    LET keep == {i \in DOMAIN rows : \A j \in (i + 1)..Len(rows) :
                    SubsetKey(rows[j], subset) # SubsetKey(rows[i], subset)}
        F[i \in 0..Len(rows)] ==
            IF i = 0 THEN <<>>
            ELSE IF i \in keep THEN Append(F[i - 1], rows[i]) ELSE F[i - 1]
    IN F[Len(rows)]

\* DataFrame.drop_duplicates(subset=..., keep="first"): a row is dropped when an
\* earlier row has the same key; missing values compare equal to each other.
drop_duplicates(rows, subset) ==
    LET keep == {i \in DOMAIN rows : \A j \in 1..(i - 1) :
                    SubsetKey(rows[j], subset) # SubsetKey(rows[i], subset)}
        F[i \in 0..Len(rows)] ==
            IF i = 0 THEN <<>>
            ELSE IF i \in keep THEN Append(F[i - 1], rows[i]) ELSE F[i - 1]
    IN F[Len(rows)]

\* main, lines 186-189: the key is trakt_id when any row has one, else (slug, title).
Dedup(rows) ==
    IF \E i \in DOMAIN rows : rows[i].trakt_id # NULL
    THEN drop_duplicates(rows, <<"trakt_id">>)
    ELSE drop_duplicates(rows, <<"trakt_slug", "title">>)

\* sort_values(["type", "title"], na_position="last"): a <= b in that order.
RowLE(a, b) ==
    \/ StrRank(a.type) < StrRank(b.type)
    \/ /\ StrRank(a.type) = StrRank(b.type)
       /\ StrRank(a.title) <= StrRank(b.title)

\* Stable insertion of r into the sorted sequence s (after its equals).
RECURSIVE InsertRow(_, _)
InsertRow(s, r) ==
    IF s = <<>> THEN <<r>>
    ELSE IF RowLE(s[1], r) THEN <<s[1]>> \o InsertRow(Tail(s), r)
    ELSE <<r>> \o s

SortRows(rows) ==
    LET F[i \in 0..Len(rows)] ==
            IF i = 0 THEN <<>> ELSE InsertRow(F[i - 1], rows[i])
    IN F[Len(rows)]

\* main, lines 183-193, on the frames of all lists: the written table, or the
\* KeyError of big["trakt_id"] when no frame has any column.
MergeLists(dfs) ==
    LET big == concat(dfs)
    IN IF ~big.has_cols
       THEN [ok |-> FALSE, rows |-> <<>>]
       ELSE [ok |-> TRUE, rows |-> SortRows(Dedup(big.rows))]

\* fetch_list_items_by_id returned raw: main flattens it, and goes to the next
\* list or, after the last one, merges and writes cartoons_trakt.csv.
FetchReturned(raw) ==
    LET dfs == Append(all_dfs, flatten_items(raw, SourceSlug(list_no)))
    IN /\ all_dfs' = dfs
       /\ page' = 1
       /\ attempt' = 1
       /\ last_err' = NULL
       /\ items' = <<>>
       /\ IF list_no < NumLists
          THEN /\ list_no' = list_no + 1
               /\ f_pc' = "fetch"
               /\ \E r \in SeqsUpTo(RawPool, MaxItems) : remote' = r
               /\ UNCHANGED <<cartoons_trakt, f_error>>
          ELSE /\ UNCHANGED <<list_no>>
               /\ remote' = <<>>
               /\ LET res == MergeLists(dfs)
                  IN IF res.ok
                     THEN /\ f_pc' = "done"
                          /\ cartoons_trakt' = File(res.rows)
                          /\ UNCHANGED f_error
                     ELSE /\ f_pc' = "failed"
                          /\ f_error' = "KeyError: trakt_id"
                          /\ UNCHANGED cartoons_trakt

\* Lines 98-105, after the attempt loop of one page, with the loop's batch
\* (<<>> stands for both None and an empty page: "if not batch") and last_err.
\* rest: what the server still holds after this page.
AfterAttempts(batch, err, rest) ==
    IF err # NULL
    THEN /\ f_pc' = "failed"
         /\ f_error' = "Falhou ao baixar page"
         /\ UNCHANGED <<list_no, page, attempt, last_err, items, remote, all_dfs,
                        cartoons_trakt>>
    ELSE IF batch = <<>>
    THEN FetchReturned(items)
    ELSE /\ items' = items \o batch
         /\ remote' = rest
         /\ page' = page + 1
         /\ attempt' = 1
         /\ last_err' = NULL
         /\ UNCHANGED <<f_pc, list_no, all_dfs, cartoons_trakt, f_error>>

\* The attempt got status 200 and a page: the next n items of the list
\* (none when the list is exhausted).
FetchOk ==
    /\ f_pc = "fetch"
    /\ \E n \in 0..Len(remote) :
        /\ (n = 0) <=> (remote = <<>>)
        /\ AfterAttempts(SubSeq(remote, 1, n), NULL, SubSeq(remote, n + 1, Len(remote)))
    /\ UNCHANGED exhausted

\* The attempt got 429, 500, 502, 503 or 504: sleep and continue; last_err is
\* not touched.  After the fifth attempt the loop ends with batch = None.
FetchTransientStatus ==
    /\ f_pc = "fetch"
    /\ IF attempt < FetchAttempts
       THEN /\ attempt' = attempt + 1
            /\ UNCHANGED <<f_pc, list_no, page, last_err, items, remote, all_dfs,
                           cartoons_trakt, f_error, exhausted>>
       ELSE /\ exhausted' = TRUE
            /\ AfterAttempts(<<>>, last_err, remote)

\* The attempt raised ReadTimeout or ConnectionError: last_err is set.
FetchTimeout ==
    /\ f_pc = "fetch"
    /\ IF attempt < FetchAttempts
       THEN /\ attempt' = attempt + 1
            /\ last_err' = "timeout"
            /\ UNCHANGED <<f_pc, list_no, page, items, remote, all_dfs,
                           cartoons_trakt, f_error, exhausted>>
       ELSE /\ exhausted' = TRUE
            /\ AfterAttempts(<<>>, "timeout", remote)

\* The attempt got 401 or 404 (RuntimeError), or another error status
\* (raise_for_status): the exception is not caught and ends main().
FetchFatalStatus ==
    /\ f_pc = "fetch"
    /\ \E e \in {"RuntimeError: 401/404", "HTTPError"} : f_error' = e
    /\ f_pc' = "failed"
    /\ UNCHANGED <<list_no, page, attempt, last_err, items, remote, all_dfs,
                   cartoons_trakt, exhausted>>

FetchInit ==
    /\ f_pc = "fetch"
    /\ list_no = 1
    /\ page = 1
    /\ attempt = 1
    /\ last_err = NULL
    /\ items = <<>>
    /\ remote \in SeqsUpTo(RawPool, MaxItems)
    /\ all_dfs = <<>>
    /\ f_error = NULL
    /\ exhausted = FALSE

\* The Fetcher is not running (the other stages' specifications).
FetchIdle ==
    /\ f_pc = "idle"
    /\ list_no = 1
    /\ page = 1
    /\ attempt = 1
    /\ last_err = NULL
    /\ items = <<>>
    /\ remote = <<>>
    /\ all_dfs = <<>>
    /\ f_error = NULL
    /\ exhausted = FALSE

(***************************************************************************)
(*                 OVERRIDE MERGER  (apply_overrides.py)                   *)
(***************************************************************************)
VARIABLES
    o_pc,            \* "start" | "done" | "crashed": position of the script
    tmdb_overrides,  \* tmdb_overrides.csv: whether it exists, and its rows
    overridden       \* the printed count "Overridden:"

overrideVars == <<o_pc, tmdb_overrides, overridden>>

\* Rows of cartoons_trakt.csv the Merger may read.
FetchedPool ==
    { [source_list_slug |-> "L1", type |-> "show",  title |-> "A",  trakt_id |-> "1", trakt_slug |-> "a",  tmdb_id |-> "5"],
      [source_list_slug |-> "L2", type |-> "show",  title |-> "A",  trakt_id |-> "2", trakt_slug |-> "a2", tmdb_id |-> NULL],
      [source_list_slug |-> "L1", type |-> "show",  title |-> "B",  trakt_id |-> "3", trakt_slug |-> "b",  tmdb_id |-> "6"],
      [source_list_slug |-> "L1", type |-> "movie", title |-> NULL, trakt_id |-> "4", trakt_slug |-> "c",  tmdb_id |-> "7"] }

\* Rows of tmdb_overrides.csv: title, tmdb_id_override, tmdb_type_override.
OverridePool ==
    { [title |-> "A",  tmdb_id_override |-> "10", tmdb_type_override |-> "tv"],
      [title |-> "A",  tmdb_id_override |-> "11", tmdb_type_override |-> "movie"],
      [title |-> "A",  tmdb_id_override |-> NULL, tmdb_type_override |-> NULL],
      [title |-> "C",  tmdb_id_override |-> "12", tmdb_type_override |-> "tv"],
      [title |-> NULL, tmdb_id_override |-> "13", tmdb_type_override |-> "movie"] }

\* Most rows of cartoons_trakt.csv and of tmdb_overrides.csv.
MaxRows == 2

MaxOverrides == 2

\* One joined row: the left row and the override columns of the right row.
JoinRow(l, r) ==
    [left |-> l, tmdb_id_override |-> r.tmdb_id_override,
     tmdb_type_override |-> r.tmdb_type_override]

\* A left row no override row matches: the override columns are missing.
JoinUnmatched(l) ==
    [left |-> l, tmdb_id_override |-> NULL, tmdb_type_override |-> NULL]

\* The override rows whose title equals l's, in the override table's order
\* (merge matches a missing key with a missing key).
MatchesOf(l, right) == SelectSeq(right, LAMBDA r : r.title = l.title)

\* The dtype read_csv gives a title column: float64 when the column has cells
\* and every one is empty (all NaN), object otherwise.
TitleDtype(rows) ==
    IF rows # <<>> /\ \A i \in DOMAIN rows : rows[i].title = NULL
    THEN "float64"
    ELSE "object"

\* df.merge(ov, on="title", how="left"): the left rows in order, each once per
\* matching right row, or once with missing override columns.  merge raises
\* ValueError when one key column is float64 and the other object, unless one
\* of the two frames has no rows (the key dtypes are not compared then).
merge_left(left, right) ==
    LET F[i \in 0..Len(left)] ==
            IF i = 0 THEN <<>>
            ELSE LET ms == MatchesOf(left[i], right)
                 IN F[i - 1] \o
                    (IF ms = <<>> THEN <<JoinUnmatched(left[i])>>
                     ELSE [k \in DOMAIN ms |-> JoinRow(left[i], ms[k])])
    IN IF left # <<>> /\ right # <<>> /\ TitleDtype(left) # TitleDtype(right)
       THEN [error |-> "ValueError", rows |-> <<>>]
       ELSE [error |-> NULL, rows |-> F[Len(left)]]

\* Lines 8-11 on one joined row: where tmdb_id_override is present it replaces
\* tmdb_id (astype(int) leaves an integer id as it is); the override columns
\* are dropped.
ApplyOverrideRow(j) ==
    IF j.tmdb_id_override # NULL
    THEN [j.left EXCEPT !.tmdb_id = j.tmdb_id_override]
    ELSE j.left

\* int(mask.sum())
CountOverridden(joined) ==
    Cardinality({k \in DOMAIN joined : joined[k].tmdb_id_override # NULL})

\* The whole script; pd.read_csv raises when cartoons_trakt.csv or
\* tmdb_overrides.csv is missing, and merge may raise: nothing is written then.
ApplyOverrides ==
    /\ o_pc = "start"
    /\ IF ~cartoons_trakt.exists \/ ~tmdb_overrides.exists
       THEN /\ o_pc' = "crashed"
            /\ UNCHANGED <<cartoons_trakt_fixed, overridden>>
       ELSE LET m == merge_left(cartoons_trakt.rows, tmdb_overrides.rows)
            IN IF m.error # NULL
               THEN /\ o_pc' = "crashed"
                    /\ UNCHANGED <<cartoons_trakt_fixed, overridden>>
               ELSE /\ cartoons_trakt_fixed' =
                          File([k \in DOMAIN m.rows |-> ApplyOverrideRow(m.rows[k])])
                    /\ overridden' = CountOverridden(m.rows)
                    /\ o_pc' = "done"
    /\ UNCHANGED <<tmdb_overrides, cartoons_trakt, cartoons_enriched, tmdb_problems>>

\* cartoons_trakt.csv is as the Fetcher writes it (deduplicated, sorted), or missing.
OverrideInit ==
    /\ o_pc = "start"
    /\ cartoons_trakt \in
         {Absent} \cup {File(d) : d \in {x \in SeqsUpTo(FetchedPool, MaxRows) :
                                            x = SortRows(Dedup(x))}}
    /\ tmdb_overrides \in
         {Absent} \cup {File(d) : d \in SeqsUpTo(OverridePool, MaxOverrides)}
    /\ cartoons_trakt_fixed = Absent
    /\ cartoons_enriched = Absent
    /\ tmdb_problems = Absent
    /\ overridden = 0

OverrideIdle ==
    /\ o_pc = "idle"
    /\ tmdb_overrides = Absent
    /\ overridden = 0

(***************************************************************************)
(*                 METADATA ENRICHER  (enrich_tmdb.py)                     *)
(***************************************************************************)
VARIABLES
    e_pc,          \* "ready" | "loop" | "done" | "aborted" | "crashed" | "failed"
    tmdb_key,      \* whether TMDB_API_KEY is set after load_env()
    e_df,          \* main: df, the rows read from cartoons_trakt_fixed.csv
    e_i,           \* main: the row being processed (1-based; row_index is e_i - 1)
    t_attempt,     \* tmdb_get: attempt of the lookup in progress
    t_last_err,    \* tmdb_get: last_err
    calls,         \* per row, the lookups made for it: endpoint, last status, data
    enriched_rows, \* main: enriched_rows
    problems,      \* main: problems
    e_error        \* the message of the exit or exception that ended main()

enrichVars == <<e_pc, tmdb_key, e_df, e_i, t_attempt, t_last_err, calls,
                enriched_rows, problems, e_error>>

\* retries: int = 5
Retries == 5

\* Most rows of cartoons_trakt_fixed.csv.
MaxEnrichRows == 2

\* Line 50: if r.status_code in (429, 500, 502, 503, 504)
TransientStatuses == {"429", "500", "502", "503", "504"}

\* ReadTimeout / ConnectionError are the "timeout" response.
TransientResponses == TransientStatuses \cup {"timeout"}

\* Rows of cartoons_trakt_fixed.csv the Enricher may read.
EnrichPool ==
    { [source_list_slug |-> "L1", type |-> "show",  title |-> "A", trakt_id |-> "1", trakt_slug |-> "a", tmdb_id |-> "5"],
      [source_list_slug |-> "L1", type |-> "movie", title |-> "B", trakt_id |-> "2", trakt_slug |-> "b", tmdb_id |-> "6"],
      [source_list_slug |-> "L2", type |-> "show",  title |-> "C", trakt_id |-> "3", trakt_slug |-> "c", tmdb_id |-> NULL] }

EnrichInputs == SeqsUpTo(EnrichPool, MaxEnrichRows)

\* The JSON bodies the server may answer with, per endpoint.  Lists are
\* sequences; a key the body lacks is NULL.
MovieDetails ==
    { [title |-> "Movie", name |-> NULL, release_date |-> "1999-06-01",
       first_air_date |-> NULL, runtime |-> "90", episode_run_time |-> <<>>,
       number_of_seasons |-> NULL, number_of_episodes |-> NULL,
       networks |-> <<>>, origin_country |-> <<>>,
       genres |-> <<"Animation", NULL, "Family">>, vote_average |-> "7.1",
       vote_count |-> "100", popularity |-> "3.5", original_language |-> "en",
       status |-> "Released"] }

TvDetails ==
    { [title |-> NULL, name |-> "Series", release_date |-> NULL,
       first_air_date |-> "2005-12-27", runtime |-> NULL,
       episode_run_time |-> <<>>,
       number_of_seasons |-> "4", number_of_episodes |-> "52",
       networks |-> <<"Cartoon Network", "Boomerang">>,
       origin_country |-> <<"US", "CA">>,
       genres |-> <<"Animation", "Comedy">>, vote_average |-> "8.0",
       vote_count |-> "250", popularity |-> "9.9", original_language |-> "en",
       status |-> "Ended"] }

DetailsOf(endpoint) == IF endpoint = "movie" THEN MovieDetails ELSE TvDetails

\* Line 123: the endpoint of the item's declared kind.
DeclaredEndpoint(trakt_type) == IF trakt_type = "movie" THEN "movie" ELSE "tv"

\* A plausible slip: the fallback asks the same endpoint again.
SameEndpoint(det_type) == det_type

\* Lines 132-137: the fallback is the other kind's endpoint.
OtherEndpoint(det_type) == IF det_type = "tv" THEN "movie" ELSE "tv"

\* A plausible slip: an exhausted lookup returns None like a 404 does.
tmdb_get_swallow(att, status) ==
    CASE status = "404" -> "return_none"
      [] status \in TransientResponses ->
            IF att < Retries THEN "retry" ELSE "return_none"
      [] status = "200" -> "return_json"
      [] OTHER -> "raise_for_status"

\* tmdb_get, one attempt (att) that got `status`: what the loop does next.
tmdb_get(att, status) ==
    CASE status = "404" -> "return_none"
      [] status \in TransientResponses ->
            IF att < Retries THEN "retry" ELSE "raise"
      [] status = "200" -> "return_json"
      [] OTHER -> "raise_for_status"

\* The first element of a list, or None: networks[0].get("name"), origin[0],
\* runtime_list[0].
FirstOrNull(list) == IF list = <<>> THEN NULL ELSE list[1]

\* pick_network_and_country_tv
pick_network_and_country_tv(details) ==
    <<FirstOrNull(details.networks), FirstOrNull(details.origin_country)>>

\* The columns an enriched row may carry; a column a row's dict lacks is NaN in
\* the frame (NULL; the empty genre string reads back from the CSV as NaN too
\* and is the empty sequence).
NoEnrichment ==
    [tmdb_detected_type |-> NULL, tmdb_name |-> NULL, tmdb_first_air_date |-> NULL,
     tmdb_status |-> NULL, tmdb_genres |-> <<>>, tmdb_runtime_min |-> NULL,
     tmdb_network |-> NULL, tmdb_origin_country |-> NULL,
     tmdb_number_of_seasons |-> NULL, tmdb_number_of_episodes |-> NULL,
     tmdb_vote_average |-> NULL, tmdb_vote_count |-> NULL, tmdb_popularity |-> NULL,
     tmdb_original_language |-> NULL, tmdb_error |-> NULL]

\* A plausible slip: the marker is forgotten.
MissingIdRowUnmarked == NoEnrichment

\* Line 105
MissingIdRow == [NoEnrichment EXCEPT !.tmdb_error = "missing_tmdb_id"]

\* A plausible slip: a not-found item is recorded without its marker.
NotFoundRowUnmarked == NoEnrichment

\* Line 142
NotFoundRow == [NoEnrichment EXCEPT !.tmdb_error = "not_found"]

\* Lines 155-195: the enriched row of a found item.  tmdb_genres, the
\* ", "-joined names, is the sequence of the names joined.
Normalize(details, det_type) ==
    LET nc == pick_network_and_country_tv(details)
        movie == det_type = "movie"
    IN [tmdb_detected_type |-> det_type,
        tmdb_name |-> IF movie THEN details.title ELSE details.name,
        tmdb_first_air_date |->
            IF movie THEN details.release_date ELSE details.first_air_date,
        tmdb_status |-> details.status,
        tmdb_genres |-> SelectSeq(details.genres, LAMBDA g : g # NULL),
        tmdb_runtime_min |->
            IF movie THEN details.runtime ELSE FirstOrNull(details.episode_run_time),
        tmdb_network |-> IF movie THEN NULL ELSE nc[1],
        tmdb_origin_country |-> IF movie THEN NULL ELSE nc[2],
        tmdb_number_of_seasons |-> IF movie THEN NULL ELSE details.number_of_seasons,
        tmdb_number_of_episodes |-> IF movie THEN NULL ELSE details.number_of_episodes,
        tmdb_vote_average |-> details.vote_average,
        tmdb_vote_count |-> details.vote_count,
        tmdb_popularity |-> details.popularity,
        tmdb_original_language |-> details.original_language,
        tmdb_error |-> NULL]

\* The entry of `problems` for row i (1-based) of frame d.
Problem(d, i, id, code) ==
    [row_index |-> i - 1, title |-> d[i].title, trakt_type |-> d[i].type,
     tmdb_id |-> id, problem |-> code]

\* Lines 202-203: out = df and enrich_df side by side.
OutRows(d, enriched) == [k \in DOMAIN d |-> d[k] @@ enriched[k]]

\* Lines 79-97: the credential check, the file check, the read.  The file
\* checked is cartoons_trakt.csv; the file read is cartoons_trakt_fixed.csv,
\* and pd.read_csv raises FileNotFoundError when it is missing.  (The files the
\* Merger writes always have the tmdb_id column of line 89.)
StartRun ==
    /\ e_pc = "ready"
    /\ IF ~tmdb_key
       THEN /\ e_pc' = "aborted"
            /\ e_error' = "Faltou TMDB_API_KEY no .env"
            /\ UNCHANGED <<e_df, calls>>
       ELSE IF ~cartoons_trakt.exists
       THEN /\ e_pc' = "aborted"
            /\ e_error' = "Nao achei cartoons_trakt_fixed.csv na pasta"
            /\ UNCHANGED <<e_df, calls>>
       ELSE IF ~cartoons_trakt_fixed.exists
       THEN /\ e_pc' = "crashed"
            /\ e_error' = "FileNotFoundError: cartoons_trakt_fixed.csv"
            /\ UNCHANGED <<e_df, calls>>
       ELSE /\ e_pc' = "loop"
            /\ e_df' = cartoons_trakt_fixed.rows
            /\ calls' = [k \in DOMAIN cartoons_trakt_fixed.rows |-> <<>>]
            /\ UNCHANGED e_error
    /\ UNCHANGED <<tmdb_key, e_i, t_attempt, t_last_err, enriched_rows, problems,
                   fileVars>>

InLoop == e_pc = "loop" /\ e_i <= Len(e_df)

\* Lines 103-115: the row has no tmdb_id; no lookup is made.
RowMissingId ==
    /\ InLoop
    /\ e_df[e_i].tmdb_id = NULL
    /\ enriched_rows' = Append(enriched_rows, MissingIdRow)
    /\ problems' = Append(problems, Problem(e_df, e_i, NULL, "missing_tmdb_id"))
    /\ e_i' = e_i + 1
    /\ UNCHANGED <<e_pc, tmdb_key, e_df, t_attempt, t_last_err, calls, e_error,
                   fileVars>>

\* The lookup in progress is between two attempts.
Retrying ==
    /\ calls[e_i] # <<>>
    /\ calls[e_i][Len(calls[e_i])].status \in TransientResponses

\* The endpoint the next request of row e_i goes to: the lookup in progress,
\* else the declared kind's (line 123), else the fallback's (line 131).
CurEndpoint ==
    IF calls[e_i] = <<>> THEN DeclaredEndpoint(e_df[e_i].type)
    ELSE IF Retrying THEN calls[e_i][Len(calls[e_i])].endpoint
    ELSE OtherEndpoint(calls[e_i][Len(calls[e_i])].endpoint)

\* calls with this attempt's response recorded.
Recorded(status, data) ==
    LET entry == [endpoint |-> CurEndpoint, status |-> status, data |-> data]
    IN [calls EXCEPT ![e_i] =
            IF Retrying THEN [@ EXCEPT ![Len(@)] = entry] ELSE Append(@, entry)]

\* tmdb_get returned details (None: <<>>) for row e_i; lines 131-200.
LookupReturned(newCalls, data) ==
    /\ calls' = newCalls
    /\ t_attempt' = 1
    /\ t_last_err' = NULL
    /\ UNCHANGED <<e_pc, e_error>>
    /\ IF data # <<>>
       THEN /\ enriched_rows' =
                   Append(enriched_rows,
                          Normalize(data[1], newCalls[e_i][Len(newCalls[e_i])].endpoint))
            /\ e_i' = e_i + 1
            /\ UNCHANGED problems
       ELSE IF Len(newCalls[e_i]) = 1
       THEN UNCHANGED <<enriched_rows, problems, e_i>>
       ELSE /\ enriched_rows' = Append(enriched_rows, NotFoundRow)
            /\ problems' = Append(problems,
                                  Problem(e_df, e_i, e_df[e_i].tmdb_id,
                                          "not_found_tv_or_movie"))
            /\ e_i' = e_i + 1

\* One attempt of tmdb_get for row e_i got `status` (and, with 200, `data`).
Attempt(status, data) ==
    LET next == tmdb_get(t_attempt, status)
        newCalls == Recorded(status, data)
    IN CASE next = "retry" ->
              /\ calls' = newCalls
              /\ t_attempt' = t_attempt + 1
              /\ t_last_err' = IF status = "timeout" THEN "timeout" ELSE t_last_err
              /\ UNCHANGED <<e_pc, e_i, enriched_rows, problems, e_error>>
         [] next = "raise" ->
              /\ calls' = newCalls
              /\ e_pc' = "failed"
              /\ e_error' = "Falha TMDB"
              /\ t_last_err' = IF status = "timeout" THEN "timeout" ELSE t_last_err
              /\ UNCHANGED <<t_attempt, e_i, enriched_rows, problems>>
         [] next = "raise_for_status" ->
              /\ calls' = newCalls
              /\ e_pc' = "failed"
              /\ e_error' = "HTTPError"
              /\ UNCHANGED <<t_attempt, t_last_err, e_i, enriched_rows, problems>>
         [] OTHER -> LookupReturned(newCalls, data)

NeedsLookup == InLoop /\ e_df[e_i].tmdb_id # NULL

LookupOk ==
    /\ NeedsLookup
    /\ \E d \in DetailsOf(CurEndpoint) : Attempt("200", <<d>>)
    /\ UNCHANGED <<tmdb_key, e_df, fileVars>>

LookupNotFound ==
    /\ NeedsLookup
    /\ Attempt("404", <<>>)
    /\ UNCHANGED <<tmdb_key, e_df, fileVars>>

LookupTransient ==
    /\ NeedsLookup
    /\ \E s \in TransientResponses : Attempt(s, <<>>)
    /\ UNCHANGED <<tmdb_key, e_df, fileVars>>

\* Any other error status, e.g. 401: raise_for_status raises.
LookupHttpError ==
    /\ NeedsLookup
    /\ Attempt("401", <<>>)
    /\ UNCHANGED <<tmdb_key, e_df, fileVars>>

\* Lines 202-210: the outputs are written; tmdb_problems.csv only if problems.
Finish ==
    /\ e_pc = "loop"
    /\ e_i > Len(e_df)
    /\ cartoons_enriched' = File(OutRows(e_df, enriched_rows))
    /\ IF problems # <<>>
       THEN tmdb_problems' = File(problems)
       ELSE UNCHANGED tmdb_problems
    /\ e_pc' = "done"
    /\ UNCHANGED <<tmdb_key, e_df, e_i, t_attempt, t_last_err, calls,
                   enriched_rows, problems, e_error,
                   cartoons_trakt, cartoons_trakt_fixed>>

\* Between two runs the process is gone: its memory is reset.
ProcessGone ==
    /\ e_pc \in {"ready", "done", "aborted", "crashed", "failed"}
    /\ e_pc' = "ready"
    /\ e_df' = <<>>
    /\ e_i' = 1
    /\ t_attempt' = 1
    /\ t_last_err' = NULL
    /\ calls' = <<>>
    /\ enriched_rows' = <<>>
    /\ problems' = <<>>
    /\ e_error' = NULL
    /\ UNCHANGED <<cartoons_enriched, tmdb_problems>>

\* Between two runs the user sets or unsets the credential in .env.
EnvCredential ==
    /\ ProcessGone
    /\ tmdb_key' = ~tmdb_key
    /\ UNCHANGED <<cartoons_trakt, cartoons_trakt_fixed>>

\* Between two runs the Fetcher's export appears or is removed.  The Enricher
\* only tests that this file exists, so the model keeps none of its rows.
EnvTraktFile ==
    /\ ProcessGone
    /\ cartoons_trakt' = IF cartoons_trakt.exists THEN Absent ELSE File(<<>>)
    /\ UNCHANGED <<tmdb_key, cartoons_trakt_fixed>>

\* Between two runs the Merger's export is rewritten or removed.
EnvFixedFile ==
    /\ ProcessGone
    /\ cartoons_trakt_fixed' \in {Absent} \cup {File(d) : d \in EnrichInputs}
    /\ cartoons_trakt_fixed' # cartoons_trakt_fixed
    /\ UNCHANGED <<tmdb_key, cartoons_trakt>>

EnrichInit ==
    /\ e_pc = "ready"
    /\ tmdb_key \in BOOLEAN
    /\ cartoons_trakt \in {Absent, File(<<>>)}
    /\ cartoons_trakt_fixed \in {Absent} \cup {File(d) : d \in EnrichInputs}
    /\ cartoons_enriched = Absent
    /\ tmdb_problems = Absent
    /\ e_df = <<>>
    /\ e_i = 1
    /\ t_attempt = 1
    /\ t_last_err = NULL
    /\ calls = <<>>
    /\ enriched_rows = <<>>
    /\ problems = <<>>
    /\ e_error = NULL

EnrichIdle ==
    /\ e_pc = "idle"
    /\ tmdb_key = FALSE
    /\ e_df = <<>>
    /\ e_i = 1
    /\ t_attempt = 1
    /\ t_last_err = NULL
    /\ calls = <<>>
    /\ enriched_rows = <<>>
    /\ problems = <<>>
    /\ e_error = NULL

(***************************************************************************)
(*            SIMILARITY RECOMMENDER, the query of app.py                  *)
(***************************************************************************)
VARIABLES
    r_pc,           \* "loaded" | "ready" | "shown": after load_data, after
                    \* build_recommender, after the recommendations tab ran;
                    \* "crashed": build_recommender raised
    titles,         \* rec_df["title"], by row (the clean dataset in file order)
    sim_matrix,     \* sim_matrix: the similarity of every pair of rows
    visible,        \* the rows of `filtered`, the dataset under the sidebar filters
    selected_title, \* the title picked in the select box
    k,              \* the slider "How many suggestions?"
    recs,           \* the rows shown: row, title and similarity, in order
    rec_df,         \* rec_df: the profile columns of the clean dataset, by row
    profile_text,   \* rec_df["profile_text"], by row
    explanation     \* the explanation shown above the table

recVars == <<r_pc, titles, sim_matrix, visible, selected_title, k, recs,
             rec_df, profile_text, explanation>>

\* Most rows of the clean dataset.
MaxRecRows == 3

\* st.slider(..., min_value=3, max_value=20, value=10)
KMin == 3

KMax == 20

RecTitles == {"A", "B"}

\* The cosine similarities of the model, on a scale on which the largest is a
\* row's similarity to itself (1.0); two rows with equal profiles have it too.
SimValues == {0, 1, 2}

SimSelf == CHOOSE v \in SimValues : \A w \in SimValues : w <= v

\* cosine_similarity(X, X): a symmetric matrix, given its entries above the diagonal.
SimMatrixOf(n, upper) ==
    [i \in 1..n |-> [j \in 1..n |->
        IF i = j THEN SimSelf
        ELSE IF i < j THEN upper[<<i, j>>] ELSE upper[<<j, i>>]]]

UpperPairs(n) == {p \in (1..n) \X (1..n) : p[1] < p[2]}

\* Line 97, {t: i for i, t in enumerate(...)}: a title maps to its last row.
title_to_idx(ts, t) ==
    CHOOSE i \in DOMAIN ts : ts[i] = t /\ \A j \in DOMAIN ts : ts[j] = t => j <= i

\* Stable insertion of row i into order s, sorted by descending score: after
\* the rows that score at least as much.
RECURSIVE InsertByScore(_, _, _)
InsertByScore(s, i, score) ==
    IF s = <<>> THEN <<i>>
    ELSE IF score[s[1]] >= score[i] THEN <<s[1]>> \o InsertByScore(Tail(s), i, score)
    ELSE <<i>> \o s

\* Lines 335-337: every row but idx, by descending similarity to idx; ties
\* keep the row order (list.sort is stable, also with reverse=True).
RankedOthers(sim, idx) ==
    LET n == Len(sim)
        F[i \in 0..n] ==
            IF i = 0 THEN <<>>
            ELSE IF i = idx THEN F[i - 1]
            ELSE InsertByScore(F[i - 1], i, sim[idx])
    IN F[n]

\* Line 339: max(k * 5, 30)
Overfetch(kk) == Max2(kk * 5, 30)

FirstN(s, n) == SubSeq(s, 1, Min2(n, Len(s)))

\* A plausible slip: the table is cut to k rows but not filtered.
RecommendUnfiltered(ts, sim, vis, selected, kk) ==
    LET idx == title_to_idx(ts, selected)
        shown == FirstN(RankedOthers(sim, idx), kk)
    IN [j \in DOMAIN shown |->
          [row |-> shown[j], title |-> ts[shown[j]], similarity |-> sim[idx][shown[j]]]]

\* Lines 330-347: the rows recommended for `selected` with k = kk, when the
\* rows `vis` are visible.
Recommend(ts, sim, vis, selected, kk) ==
    LET idx == title_to_idx(ts, selected)
        top == FirstN(RankedOthers(sim, idx), Overfetch(kk))
        allowed_titles == {ts[i] : i \in vis}
        kept == SelectSeq(top, LAMBDA i : ts[i] \in allowed_titles)
        shown == FirstN(kept, kk)
    IN [j \in DOMAIN shown |->
          [row |-> shown[j], title |-> ts[shown[j]], similarity |-> sim[idx][shown[j]]]]

\* Most rows of a clean dataset whose profile columns are taken in full.
MaxProfileRows == 2

\* Values of cartoons_clean.csv as read_csv returns them: an empty cell is NaN.
GenreStrings == {NULL, <<"Comedy">>, <<"Comedy", "Family">>}

NetworkNames == {NULL, "Nickelodeon"}

Decades == {NULL, "1990"}

CleanPool ==
    [tmdb_genres : GenreStrings, network_norm : NetworkNames, decade : Decades]

\* A row of which every profile column is empty.
BlankRow == [tmdb_genres |-> NULL, network_norm |-> NULL, decade |-> NULL]

\* Lines 52-57, pd.to_numeric on the decade column: a column with an empty
\* cell is a float column (1990 is 1990.0), a column without is an int column.
load_data(rows) ==
    LET floats == \E i \in DOMAIN rows : rows[i].decade = NULL
    IN [i \in DOMAIN rows |->
          [rows[i] EXCEPT !.decade =
              IF @ = NULL THEN NULL ELSE IF floats THEN @ \o ".0" ELSE @]]

\* str(v or ""): NaN is truthy, and str(nan) is "nan".
StrOrEmpty(v) == IF v = NULL THEN "nan" ELSE v

\* The words of str(tmdb_genres or ""): the genre names, or "nan".
GenreWords(g) == IF g = NULL THEN <<"nan">> ELSE g

\* Lines 76-81: the profile text, as its words in order.
build_profile_text(row) ==
    LET genres == GenreWords(row.tmdb_genres)
        network == StrOrEmpty(row.network_norm)
        decade == StrOrEmpty(row.decade)
        words == genres \o genres \o <<network, network>> \o <<"decade_" \o decade>>
    IN SelectSeq(words, LAMBDA w : w # "")

\* lowercase=True of the vectorizer, on the words of the model.
Lower(w) ==
    CASE w = "Comedy" -> "comedy"
      [] w = "Family" -> "family"
      [] w = "Nickelodeon" -> "nickelodeon"
      [] OTHER -> w

\* token_pattern (?u)\b[\w&]+\b on one word: "." splits "decade_1990.0".
WordTokens(w) ==
    IF w = "decade_1990.0" THEN {"decade_1990", "0"} ELSE {Lower(w)}

\* Line 93: the tokens the vectorizer takes from a profile text.
analyzer(text) == UNION {WordTokens(text[i]) : i \in DOMAIN text}

\* The orders of a finite set.
Orders(S) ==
    {s \in [1..Cardinality(S) -> S] : \A i, j \in DOMAIN s : i # j => s[i] # s[j]}

\* int(decade) as printed: 1990.0 is 1990.
IntStr(d) == IF d = "1990.0" THEN "1990" ELSE d

\* Line 146
GenericExplanation ==
    [generic |-> TRUE, title |-> NULL, genres |-> <<>>, network |-> NULL, decade |-> NULL]

\* Lines 103-149: the explanations build_explanation can return, each as the
\* parts its sentence names (NULL: not named).  Genres that are shared equally
\* often come in the iteration order of a set of strings, which differs from
\* run to run, so every such order is an outcome.
build_explanation(sel, idx, df, sim) ==
    LET preview_idx == FirstN(RankedOthers(sim, idx), 8)
        base_set == Range(GenreWords(df[idx].tmdb_genres))
        Freq(g) == Cardinality({q \in DOMAIN preview_idx :
                        g \in Range(GenreWords(df[preview_idx[q]].tmdb_genres))})
        common == {g \in base_set : Freq(g) > 0}
        sorted == {s \in Orders(common) :
                      \A i, j \in DOMAIN s : i < j => Freq(s[i]) >= Freq(s[j])}
        network == StrOrEmpty(df[idx].network_norm)
        decade == df[idx].decade
    IN {IF common = {} /\ network = "" /\ decade = NULL
        THEN GenericExplanation
        ELSE [generic |-> FALSE,
              title |-> sel,
              genres |-> FirstN(s, 3),
              network |-> IF network = "" THEN NULL ELSE network,
              decade |-> IF decade = NULL THEN NULL ELSE IntStr(decade)]
        : s \in sorted}

\* Lines 84-101, build_recommender: the profile texts are built and the
\* vectorizer and cosine_similarity return the similarity matrix.  On a
\* dataset without rows fit_transform raises ValueError (empty vocabulary)
\* and the script ends there.
BuildRecommender ==
    /\ r_pc = "loaded"
    /\ IF rec_df = <<>>
       THEN /\ r_pc' = "crashed"
            /\ UNCHANGED <<profile_text, sim_matrix>>
       ELSE /\ profile_text' = [i \in DOMAIN rec_df |-> build_profile_text(rec_df[i])]
            /\ \E upper \in [UpperPairs(Len(rec_df)) -> SimValues] :
                  sim_matrix' = SimMatrixOf(Len(rec_df), upper)
            /\ r_pc' = "ready"
    /\ UNCHANGED <<titles, rec_df, visible, selected_title, k, recs, explanation>>

\* The recommendations tab runs: a title among the visible ones is picked,
\* a k is set, and the table is shown.
Query ==
    /\ r_pc = "ready"
    /\ visible # {}
    /\ \E t \in {titles[i] : i \in visible}, kk \in {KMin, KMax} :
          /\ selected_title' = t
          /\ k' = kk
          /\ explanation' \in
                build_explanation(t, title_to_idx(titles, t), rec_df, sim_matrix)
          /\ recs' = Recommend(titles, sim_matrix, visible, t, kk)
    /\ r_pc' = "shown"
    /\ UNCHANGED <<titles, sim_matrix, visible, rec_df, profile_text>>

RecInit ==
    /\ r_pc = "ready"
    /\ \E n \in 1..MaxRecRows :
          /\ titles \in [1..n -> RecTitles]
          /\ \E upper \in [UpperPairs(n) -> SimValues] :
                sim_matrix = SimMatrixOf(n, upper)
          /\ visible \in SUBSET (1..n)
          /\ rec_df = [i \in 1..n |-> BlankRow]
          /\ profile_text = [i \in 1..n |-> build_profile_text(BlankRow)]
    /\ selected_title = NULL
    /\ k = KMin
    /\ recs = <<>>
    /\ explanation = NULL

\* Largest catalogue: more rows than the query over-fetches at the smallest k.
MaxCatalog == 32

\* The small catalogues, all taken (build_recommender raises on an empty one).
SmallCatalog == 5

CatalogSizes == (1..SmallCatalog) \cup {MaxCatalog}

\* Where a catalogue of n rows is cut into blocks: near its ends.
Cuts(n) == {0, 1, 2, n - 2, n - 1, n} \cap (0..n)

\* Rows 1..a have profile class 0, rows a+1..b class 1, the others class 2.
ClassOf(i, a, b) == IF i <= a THEN 0 ELSE IF i <= b THEN 1 ELSE 2

\* cosine_similarity(X, X) of a catalogue whose rows fall into profile
\* classes: rows of one class have equal profiles (similarity 1.0), and the
\* further apart two classes, the less their rows have in common.
ClassSimMatrix(n, a, b) ==
    [i \in 1..n |-> [j \in 1..n |->
        LET ci == ClassOf(i, a, b)
            cj == ClassOf(j, a, b)
        IN SimSelf - (IF ci >= cj THEN ci - cj ELSE cj - ci)]]

\* df2["title"].astype(str) of a catalogue of n rows that holds m different
\* titles: row i carries title number ((i - 1) mod m) + 1.
CatalogTitles(n, m) == [i \in 1..n |-> ToString(((i - 1) % m) + 1)]

\* The recommendations tab over large catalogues: the rows in three profile
\* classes, the first p rows and the rows after q visible, the titles
\* distinct or every title carried by two rows.
RecWideInit ==
    /\ r_pc = "ready"
    /\ \E n \in CatalogSizes :
          /\ \E m \in {n, (n + 1) \div 2} : titles = CatalogTitles(n, m)
          /\ \E a \in Cuts(n), b \in Cuts(n) :
                /\ a <= b
                /\ sim_matrix = ClassSimMatrix(n, a, b)
          /\ \E p \in Cuts(n), q \in Cuts(n) :
                /\ p <= q
                /\ visible = (1..p) \cup ((q + 1)..n)
          /\ rec_df = [i \in 1..n |-> BlankRow]
          /\ profile_text = [i \in 1..n |-> build_profile_text(BlankRow)]
    /\ selected_title = NULL
    /\ k = KMin
    /\ recs = <<>>
    /\ explanation = NULL

\* The app after load_data, over every clean dataset of the bounds, with
\* every row visible.
ProfileInit ==
    /\ r_pc = "loaded"
    /\ \E n \in 0..MaxProfileRows :
          /\ titles \in [1..n -> RecTitles]
          /\ \E rows \in [1..n -> CleanPool] : rec_df = load_data(rows)
          /\ visible = 1..n
    /\ sim_matrix = <<>>
    /\ profile_text = <<>>
    /\ selected_title = NULL
    /\ k = KMin
    /\ recs = <<>>
    /\ explanation = NULL

RecIdle ==
    /\ r_pc = "idle"
    /\ titles = <<>>
    /\ sim_matrix = <<>>
    /\ visible = {}
    /\ selected_title = NULL
    /\ k = KMin
    /\ recs = <<>>
    /\ rec_df = <<>>
    /\ profile_text = <<>>
    /\ explanation = NULL

(***************************************************************************)
(*                          SPECIFICATIONS                                 *)
(***************************************************************************)
vars == <<fileVars, fetchVars, overrideVars, enrichVars, recVars>>

\* The Fetcher, from its start to the written export.
FetchNext ==
    \/ FetchOk /\ UNCHANGED <<overrideVars, enrichVars, recVars, cartoons_trakt_fixed, cartoons_enriched, tmdb_problems>>
    \/ FetchTransientStatus /\ UNCHANGED <<overrideVars, enrichVars, recVars, cartoons_trakt_fixed, cartoons_enriched, tmdb_problems>>
    \/ FetchTimeout /\ UNCHANGED <<overrideVars, enrichVars, recVars, cartoons_trakt_fixed, cartoons_enriched, tmdb_problems>>
    \/ FetchFatalStatus /\ UNCHANGED <<overrideVars, enrichVars, recVars, cartoons_trakt_fixed, cartoons_enriched, tmdb_problems>>

InitFetch ==
    /\ FetchInit
    /\ cartoons_trakt = Absent
    /\ cartoons_trakt_fixed = Absent
    /\ cartoons_enriched = Absent
    /\ tmdb_problems = Absent
    /\ OverrideIdle
    /\ EnrichIdle
    /\ RecIdle

SpecFetch == InitFetch /\ [][FetchNext]_vars

\* The Merger, on every fetched export and override table of the bounds.
OverrideNext == ApplyOverrides /\ UNCHANGED <<fetchVars, enrichVars, recVars>>

InitOverride == OverrideInit /\ FetchIdle /\ EnrichIdle /\ RecIdle

SpecOverride == InitOverride /\ [][OverrideNext]_vars

\* One run of the Enricher in a fresh directory.
EnrichNext ==
    \/ StartRun /\ UNCHANGED <<fetchVars, overrideVars, recVars>>
    \/ RowMissingId /\ UNCHANGED <<fetchVars, overrideVars, recVars>>
    \/ LookupOk /\ UNCHANGED <<fetchVars, overrideVars, recVars>>
    \/ LookupNotFound /\ UNCHANGED <<fetchVars, overrideVars, recVars>>
    \/ LookupTransient /\ UNCHANGED <<fetchVars, overrideVars, recVars>>
    \/ LookupHttpError /\ UNCHANGED <<fetchVars, overrideVars, recVars>>
    \/ Finish /\ UNCHANGED <<fetchVars, overrideVars, recVars>>

InitEnrich == EnrichInit /\ FetchIdle /\ OverrideIdle /\ RecIdle

SpecEnrich == InitEnrich /\ [][EnrichNext]_vars

\* Runs of the Enricher one after another in the same directory.
EnrichRunsNext ==
    \/ EnrichNext
    \/ EnvCredential /\ UNCHANGED <<fetchVars, overrideVars, recVars>>
    \/ EnvTraktFile /\ UNCHANGED <<fetchVars, overrideVars, recVars>>
    \/ EnvFixedFile /\ UNCHANGED <<fetchVars, overrideVars, recVars>>

SpecEnrichRuns == InitEnrich /\ [][EnrichRunsNext]_vars

\* The recommendations tab over every dataset, similarity matrix and filter
\* of the bounds.
RecNext == Query /\ UNCHANGED <<fileVars, fetchVars, overrideVars, enrichVars>>

InitRec ==
    /\ RecInit
    /\ cartoons_trakt = Absent
    /\ cartoons_trakt_fixed = Absent
    /\ cartoons_enriched = Absent
    /\ tmdb_problems = Absent
    /\ FetchIdle
    /\ OverrideIdle
    /\ EnrichIdle

SpecRec == InitRec /\ [][RecNext]_vars

\* The recommendations tab over catalogues larger than the over-fetch.
InitRecWide ==
    /\ RecWideInit
    /\ cartoons_trakt = Absent
    /\ cartoons_trakt_fixed = Absent
    /\ cartoons_enriched = Absent
    /\ tmdb_problems = Absent
    /\ FetchIdle
    /\ OverrideIdle
    /\ EnrichIdle

SpecRecWide == InitRecWide /\ [][RecNext]_vars

\* The app from load_data to the shown recommendations.
ProfileNext ==
    \/ BuildRecommender /\ UNCHANGED <<fileVars, fetchVars, overrideVars, enrichVars>>
    \/ Query /\ UNCHANGED <<fileVars, fetchVars, overrideVars, enrichVars>>

InitProfile ==
    /\ ProfileInit
    /\ cartoons_trakt = Absent
    /\ cartoons_trakt_fixed = Absent
    /\ cartoons_enriched = Absent
    /\ tmdb_problems = Absent
    /\ FetchIdle
    /\ OverrideIdle
    /\ EnrichIdle

SpecProfile == InitProfile /\ [][ProfileNext]_vars

(***************************************************************************)
(*                               CLAIMS                                    *)
(***************************************************************************)

\* C1 (SpecFetch): once a page request of fetch_list_items_by_id has ended all
\* five attempts in a transient failure (429/5xx statuses, timeouts, any mix),
\* the fetch has failed with the error naming the page; it never returns
\* normally, so main() is neither fetching on nor done.
C1_ExhaustedPageFails ==
    exhausted => (f_pc = "failed" /\ f_error = "Falhou ao baixar page")

\* The first row of batch b with cross-reference id x.
FirstWithId(b, x) ==
    b[CHOOSE i \in DOMAIN b :
        /\ b[i].trakt_id = x
        /\ \A j \in 1..(i - 1) : b[j].trakt_id # x]

IdsOf(b) == {b[i].trakt_id : i \in DOMAIN b} \ {NULL}

\* C2 (SpecFetch): when the export is written, every trakt_id that occurs in the
\* rows of both source lists occurs in exactly one row of cartoons_trakt.csv, and
\* that row is the first list's first row with that id.
C2_SharedIdKeepsFirstBatch ==
    f_pc = "done" =>
        LET out == cartoons_trakt.rows
        IN \A x \in IdsOf(all_dfs[1].rows) \cap IdsOf(all_dfs[2].rows) :
              /\ Cardinality({q \in DOMAIN out : out[q].trakt_id = x}) = 1
              /\ \A q \in DOMAIN out :
                    out[q].trakt_id = x => out[q] = FirstWithId(all_dfs[1].rows, x)

\* C2 witness: the export is written from two lists that hold the same trakt_id
\* under different titles.
C2_Witness ==
    /\ f_pc = "done"
    /\ \E i \in DOMAIN all_dfs[1].rows, j \in DOMAIN all_dfs[2].rows :
          /\ all_dfs[1].rows[i].trakt_id # NULL
          /\ all_dfs[1].rows[i].trakt_id = all_dfs[2].rows[j].trakt_id
          /\ all_dfs[1].rows[i].title # all_dfs[2].rows[j].title

\* Output row r is fetched row f up to its tmdb_id.
SameItem(r, f) == [r EXCEPT !.tmdb_id = f.tmdb_id] = f

\* C3 (SpecOverride): after the Merger ran, for every fetched row with a title
\* and every override row with that title and a non-null override id, each
\* output row of that fetched row has the override id as its tmdb_id; and each
\* output row of a fetched row whose title no override row has is that row.
C3_OverridePrecedence ==
    o_pc = "done" =>
        LET out == cartoons_trakt_fixed.rows
            fetched == cartoons_trakt.rows
        IN \A i \in DOMAIN fetched :
              fetched[i].title # NULL =>
                 /\ \A j \in DOMAIN tmdb_overrides.rows :
                       (/\ tmdb_overrides.rows[j].title = fetched[i].title
                        /\ tmdb_overrides.rows[j].tmdb_id_override # NULL)
                       => \A q \in DOMAIN out :
                             SameItem(out[q], fetched[i])
                             => out[q].tmdb_id = tmdb_overrides.rows[j].tmdb_id_override
                 /\ (\A j \in DOMAIN tmdb_overrides.rows :
                        tmdb_overrides.rows[j].title # fetched[i].title)
                    => /\ \E q \in DOMAIN out : out[q] = fetched[i]
                       /\ \A q \in DOMAIN out :
                             SameItem(out[q], fetched[i]) => out[q] = fetched[i]

\* The rows whose lookups have all ended: every one but the row in progress.
LookupEnded(q, c) == q < e_i \/ c < Len(calls[q]) \/ e_pc = "done"

\* Row q got not-found from both kind lookups.
BothNotFound(q) ==
    /\ Len(calls[q]) = 2
    /\ calls[q][1].status = "404"
    /\ calls[q][2].status = "404"

\* Row q of the export carries the metadata of details d, looked up as `kind`.
PopulatedFrom(r, d, kind) ==
    /\ r.tmdb_detected_type = kind
    /\ r.tmdb_name = (IF kind = "movie" THEN d.title ELSE d.name)
    /\ r.tmdb_name # NULL
    /\ r.tmdb_first_air_date = (IF kind = "movie" THEN d.release_date ELSE d.first_air_date)
    /\ r.tmdb_first_air_date # NULL
    /\ r.tmdb_status = d.status
    /\ r.tmdb_vote_average = d.vote_average
    /\ r.tmdb_genres # <<>>
    /\ Range(r.tmdb_genres) = Range(d.genres) \ {NULL}
    /\ kind = "movie" => r.tmdb_runtime_min = d.runtime
    /\ kind = "tv" =>
          /\ r.tmdb_number_of_seasons = d.number_of_seasons
          /\ r.tmdb_number_of_episodes = d.number_of_episodes
          /\ r.tmdb_network = d.networks[1]
          /\ r.tmdb_origin_country = d.origin_country[1]

\* C4 (SpecEnrich): a not-found never ends the run; and when a run over N rows
\* that all carry a tmdb_id completes, the export has N rows in input order,
\* the rows that got not-found from both lookups, and only they, carry the
\* marker not_found, and every other row has no marker and the metadata of the
\* details its lookup returned.
C4_NotFoundIsolated ==
    /\ e_pc = "failed" =>
          calls[e_i][Len(calls[e_i])].status \in TransientResponses \cup {"401"}
    /\ (e_pc = "done" /\ \A q \in DOMAIN e_df : e_df[q].tmdb_id # NULL) =>
          LET out == cartoons_enriched.rows
              nf == {q \in DOMAIN e_df : BothNotFound(q)}
          IN /\ cartoons_enriched.exists
             /\ Len(out) = Len(e_df)
             /\ \A q \in DOMAIN e_df :
                   /\ [c \in DOMAIN e_df[q] |-> out[q][c]] = e_df[q]
                   /\ q \in nf => out[q].tmdb_error = "not_found"
                   /\ q \notin nf =>
                         /\ out[q].tmdb_error = NULL
                         /\ LET last == calls[q][Len(calls[q])]
                            IN PopulatedFrom(out[q], last.data[1], last.endpoint)
             /\ Cardinality({q \in DOMAIN out : out[q].tmdb_error = "not_found"})
                   = Cardinality(nf)

\* C4 witness: a completed run over two rows with ids, one not found by either
\* lookup and one populated.
C4_Witness ==
    /\ e_pc = "done"
    /\ Len(e_df) = 2
    /\ \A q \in DOMAIN e_df : e_df[q].tmdb_id # NULL
    /\ \E q \in DOMAIN e_df : BothNotFound(q)
    /\ \E q \in DOMAIN e_df : cartoons_enriched.rows[q].tmdb_name # NULL

\* C5 as the spec states it: the marker of an id-less item is missing_id, and
\* every marker is missing_id, not_found or none.
C5_MarkerMissingId ==
    \A q \in DOMAIN enriched_rows :
        /\ e_df[q].tmdb_id = NULL => enriched_rows[q].tmdb_error = "missing_id"
        /\ enriched_rows[q].tmdb_error \in {"missing_id", "not_found", NULL}

\* C5 (SpecEnrich), amended: no lookup is ever made for a row without tmdb_id,
\* its enriched record carries the marker missing_tmdb_id, and every marker, in
\* memory and in the written export, is missing_tmdb_id, not_found or none.
C5_MissingIdSkipsLookup ==
    /\ \A q \in DOMAIN calls : e_df[q].tmdb_id = NULL => calls[q] = <<>>
    /\ \A q \in DOMAIN enriched_rows :
          /\ e_df[q].tmdb_id = NULL => enriched_rows[q].tmdb_error = "missing_tmdb_id"
          /\ enriched_rows[q].tmdb_error \in {"missing_tmdb_id", "not_found", NULL}
    /\ \A q \in DOMAIN cartoons_enriched.rows :
          /\ e_df[q].tmdb_id = NULL =>
                cartoons_enriched.rows[q].tmdb_error = "missing_tmdb_id"
          /\ cartoons_enriched.rows[q].tmdb_error \in {"missing_tmdb_id", "not_found", NULL}

\* C5 witness: a completed run over an id-less row and a row that was looked up.
C5_Witness ==
    /\ e_pc = "done"
    /\ \E q \in DOMAIN e_df :
          /\ e_df[q].tmdb_id = NULL
          /\ cartoons_enriched.rows[q].tmdb_error = "missing_tmdb_id"
    /\ \E q \in DOMAIN e_df : calls[q] # <<>>

\* C6 (SpecEnrich): for every row with a tmdb_id, the first lookup goes to the
\* endpoint of the declared kind (movie iff the kind is movie); there are at
\* most two lookups, the second only after the first returned not-found and to
\* the other kind's endpoint; a 404 ends its lookup at once (the next request
\* is attempt 1 of another lookup); and the detected kind of a record is the
\* endpoint that returned its data, none when both lookups found nothing.
C6_LookupOrder ==
    /\ \A q \in DOMAIN calls :
          /\ Len(calls[q]) <= 2
          /\ calls[q] # <<>> =>
                calls[q][1].endpoint = (IF e_df[q].type = "movie" THEN "movie" ELSE "tv")
          /\ Len(calls[q]) = 2 =>
                /\ calls[q][1].status = "404"
                /\ calls[q][1].endpoint # calls[q][2].endpoint
                /\ {calls[q][1].endpoint, calls[q][2].endpoint} = {"movie", "tv"}
          /\ (calls[q] # <<>> /\ calls[q][Len(calls[q])].status = "404"
                /\ e_pc = "loop" /\ q = e_i) => t_attempt = 1
    /\ \A q \in DOMAIN enriched_rows :
          e_df[q].tmdb_id # NULL =>
             LET last == calls[q][Len(calls[q])]
             IN IF enriched_rows[q].tmdb_detected_type = NULL
                THEN BothNotFound(q)
                ELSE /\ last.status = "200"
                     /\ last.data # <<>>
                     /\ enriched_rows[q].tmdb_detected_type = last.endpoint

\* C6 witness: a row declared a show whose series lookup returned not-found and
\* whose movie lookup returned the data recorded.
C6_Witness ==
    \E q \in DOMAIN enriched_rows :
        /\ e_df[q].type = "show"
        /\ Len(calls[q]) = 2
        /\ calls[q][2].status = "200"
        /\ enriched_rows[q].tmdb_detected_type = "movie"

\* C7 (SpecEnrich, a run in a fresh directory): a lookup never makes a sixth
\* attempt; no lookup ends (returns) on a transient failure, so one whose five
\* attempts were all transient failures raised; and a failed run has written
\* neither the enriched export nor the problems report: they exist only once
\* the run is done.
C7_ExhaustedLookupIsFatal ==
    /\ t_attempt \in 1..Retries
    /\ \A q \in DOMAIN calls : \A c \in DOMAIN calls[q] :
          LookupEnded(q, c) => calls[q][c].status \in {"200", "404"}
    /\ (e_pc = "loop" /\ e_i \in DOMAIN calls /\ calls[e_i] # <<>>
           /\ calls[e_i][Len(calls[e_i])].status \in TransientResponses)
          => t_attempt > 1
    /\ e_pc = "failed" => ~cartoons_enriched.exists /\ ~tmdb_problems.exists
    /\ (cartoons_enriched.exists \/ tmdb_problems.exists) => e_pc = "done"

\* C7 witness: the run failed on a lookup whose fifth attempt was a transient
\* failure, after a row that was not found had been tolerated.
C7_Witness ==
    /\ e_pc = "failed"
    /\ e_error = "Falha TMDB"
    /\ t_attempt = Retries
    /\ calls[e_i][Len(calls[e_i])].status \in TransientResponses
    /\ \E q \in DOMAIN enriched_rows : enriched_rows[q].tmdb_error = "not_found"
    /\ ~cartoons_enriched.exists

\* The problems report regenerated from an enriched export: one row per row
\* with an error marker, with its index, title, declared kind and id.
RegeneratedReport(rows) ==
    LET F[q \in 0..Len(rows)] ==
            IF q = 0 THEN <<>>
            ELSE IF rows[q].tmdb_error # NULL
            THEN Append(F[q - 1], [row_index |-> q - 1, title |-> rows[q].title,
                                   trakt_type |-> rows[q].type,
                                   tmdb_id |-> rows[q].tmdb_id])
            ELSE F[q - 1]
    IN F[Len(rows)]

\* The persisted report without its problem code.
ReportRows(report) ==
    [q \in DOMAIN report |->
        [row_index |-> report[q].row_index, title |-> report[q].title,
         trakt_type |-> report[q].trakt_type, tmdb_id |-> report[q].tmdb_id]]

\* C8 (SpecEnrichRuns): after every completed run the persisted problems report
\* (no rows when the file is absent) is the report regenerated from the
\* persisted enriched export.
C8_ReportMatchesExport ==
    e_pc = "done" =>
        ReportRows(tmdb_problems.rows) = RegeneratedReport(cartoons_enriched.rows)

\* C9 (SpecEnrich): once main() has started, it has aborted with its message
\* exactly when the credential or cartoons_trakt_fixed.csv, the file it reads,
\* is missing; and with that file missing it never went on to read it.
C9_AbortsIffConfigMissing ==
    e_pc # "ready" =>
        /\ (e_pc = "aborted") <=> (~tmdb_key \/ ~cartoons_trakt_fixed.exists)
        /\ ~cartoons_trakt_fixed.exists => e_pc # "crashed"

\* C10 (SpecRec): the rows recommended for the selected title never include
\* a row whose title is the selected title.
C10_NoSelfTitle ==
    r_pc = "shown" =>
        \A j \in DOMAIN recs : recs[j].title # selected_title

\* C11 (SpecRecWide): every row the query returns has a title that a visible
\* row carries, and the query returns at most k rows.
C11_VisibleAndAtMostK ==
    r_pc = "shown" =>
        /\ \A j \in DOMAIN recs : recs[j].title \in {titles[i] : i \in visible}
        /\ Len(recs) <= k

\* C11 witness: the query returned exactly k rows while more than k other rows
\* were visible, and some row of the catalogue was not visible.
C11_Witness ==
    /\ r_pc = "shown"
    /\ Len(recs) = k
    /\ Cardinality(visible) > k + 1
    /\ visible # DOMAIN titles

\* The profile text the sentence of C12 describes: a missing field
\* contributes the empty string.
ProfileOfPresent(row) ==
    LET genres == IF row.tmdb_genres = NULL THEN <<>> ELSE row.tmdb_genres
        network == IF row.network_norm = NULL THEN <<>> ELSE <<row.network_norm>>
        decade == IF row.decade = NULL THEN "" ELSE row.decade
    IN genres \o genres \o network \o network \o <<"decade_" \o decade>>

\* C12 (SpecProfile): once build_recommender ran, the tokens of every row's
\* profile text are those of its present fields alone: a missing tmdb_genres,
\* network_norm or decade contributes the empty string and so no token.
C12_MissingContributesEmpty ==
    \A i \in DOMAIN profile_text :
        analyzer(profile_text[i]) = analyzer(ProfileOfPresent(rec_df[i]))

\* The genres of row i of rec_df.
GenresOf(i) == IF rec_df[i].tmdb_genres = NULL THEN {} ELSE Range(rec_df[i].tmdb_genres)

\* The genres the query row idx shares with one of its 8 nearest rows.
SharedWithTop8(idx) ==
    LET top8 == FirstN(RankedOthers(sim_matrix, idx), 8)
    IN {g \in GenresOf(idx) : \E q \in DOMAIN top8 : g \in GenresOf(top8[q])}

\* C13 (SpecProfile): the explanation of a query names the network only if the
\* query row has one and the decade only if it has one; it names at most 3
\* genres, each a genre of the query row shared with one of its 8 nearest
\* rows; and with no shared genre, no network and no decade it is the generic
\* sentence.
C13_ExplanationFromPresent ==
    r_pc = "shown" =>
        LET idx == title_to_idx(titles, selected_title)
            row == rec_df[idx]
        IN /\ explanation.network # NULL => row.network_norm \notin {NULL, ""}
           /\ explanation.decade # NULL => row.decade # NULL
           /\ Len(explanation.genres) <= 3
           /\ Range(explanation.genres) \subseteq SharedWithTop8(idx)
           /\ (SharedWithTop8(idx) = {} /\ row.network_norm \in {NULL, ""}
                 /\ row.decade = NULL) => explanation.generic

\* C14 (SpecOverride): after the Merger ran, cartoons_trakt_fixed.csv has one
\* row per row of cartoons_trakt.csv, in the same order, each the fetched row
\* up to its tmdb_id.
C14_OneRowPerFetchedRow ==
    o_pc = "done" =>
        LET out == cartoons_trakt_fixed.rows
            fetched == cartoons_trakt.rows
        IN /\ Len(out) = Len(fetched)
           /\ \A i \in DOMAIN fetched : SameItem(out[i], fetched[i])

\* Rows a and b are the same item: the same trakt_id, or, both without one,
\* the same (trakt_slug, title).
SameIdentity(a, b) ==
    IF a.trakt_id # NULL \/ b.trakt_id # NULL
    THEN a.trakt_id = b.trakt_id
    ELSE a.trakt_slug = b.trakt_slug /\ a.title = b.title

\* C15 (SpecFetch): when the export is written, every row flattened from the
\* two lists is the same item as some row of cartoons_trakt.csv: no item is
\* dropped unless an item of its identity is kept.
C15_NoDistinctItemDropped ==
    f_pc = "done" =>
        \A n \in DOMAIN all_dfs : \A i \in DOMAIN all_dfs[n].rows :
            \E q \in DOMAIN cartoons_trakt.rows :
                SameIdentity(all_dfs[n].rows[i], cartoons_trakt.rows[q])

\* C16 (SpecRecWide): on a catalogue of distinct titles, a query for T with k
\* returns min(k, number of visible rows other than T) rows; they are visible
\* rows other than T, none twice, in descending similarity to T, each with its
\* similarity of the matrix, and no visible row left out is more similar to T
\* than a row returned.
C16_TopKOfVisible ==
    (/\ r_pc = "shown"
     /\ \A i, j \in DOMAIN titles : i # j => titles[i] # titles[j]) =>
        LET idx == title_to_idx(titles, selected_title)
            cand == visible \ {idx}
            rows == {recs[j].row : j \in DOMAIN recs}
        IN /\ Len(recs) = Min2(k, Cardinality(cand))
           /\ rows \subseteq cand
           /\ Cardinality(rows) = Len(recs)
           /\ \A j \in DOMAIN recs :
                 /\ recs[j].similarity = sim_matrix[idx][recs[j].row]
                 /\ j > 1 => recs[j - 1].similarity >= recs[j].similarity
                 /\ \A c \in cand \ rows : sim_matrix[idx][c] <= recs[j].similarity

=============================================================================
